---- MODULE Spec2Model ----
(***************************************************************************)
(* A model of the invariant-bearing parts of librekpi/model.py:            *)
(*   - User.salt / User.password / User.validate_password                  *)
(*   - JSONEncodedDict / JSONEncodedList (the JSON-in-text column codec)   *)
(*   - User.age (application side) and its query expression                *)
(* Python values are tagged records [ty, v]; text is a sequence of code    *)
(* points, bytes a sequence of 0..255.  The interpreter modelled is        *)
(* Python 3 (str and bytes are different types, as lines 102-103 and       *)
(* 126-129 of model.py assume).                                            *)
(***************************************************************************)
EXTENDS Integers, Sequences, FiniteSets, TLC

VARIABLES
    id,             \* User.id: 0 stands for None (the row has no primary key yet)
    _salt,          \* User._salt: PyNone, a bytes value or a str value
    _password,      \* User._password: PyNone or the stored digest
    clear,          \* history: the clear-text password most recently assigned
    salt0,          \* history: the first salt value stored on the user
    last,           \* history: the last completed call, its argument and result
    pc,             \* concurrent runs: each thread's position
    req,            \* concurrent runs: each thread's operation and argument
    loc,            \* concurrent runs: each thread's locals
    assigned,       \* concurrent runs: history of the values line 100 stored
    empty_val,      \* the class attributes JSONEncodedDict/-List.empty_val
    column,         \* the stored column text of each codec (ColNull = SQL NULL)
    bound_value,    \* history: the value last handed to process_bind_param
    held,           \* the value last returned by process_result_value
    date_of_birth,  \* User.date_of_birth: NoDate (None) or a date
    timezone,       \* User.timezone: TzNone or Tz(an hour offset)
    utcnow,         \* the clock: [day, hour]
    age_result      \* the outcome of the last read of User.age

credVars  == <<id, _salt, _password, clear, salt0, last>>
concVars  == <<pc, req, loc, assigned>>
codecVars == <<empty_val, column, bound_value, held>>
ageVars   == <<date_of_birth, timezone, utcnow, age_result>>
vars      == <<credVars, concVars, codecVars, ageVars>>

(***************************************************************************)
(* Bounds                                                                  *)
(***************************************************************************)
NumSeeds == 2       \* how many different outcomes os.urandom(8) may have
MaxPwLen == 2       \* longest clear-text password tried

(***************************************************************************)
(* Python values                                                           *)
(***************************************************************************)
PyNone     == [ty |-> "None",  v |-> <<>>]
PyBytes(b) == [ty |-> "bytes", v |-> b]
PyStr(s)   == [ty |-> "str",   v |-> s]
PyError    == [ty |-> "error", v |-> <<>>]

\* "not x" of Python for the values a salt can be: None and empty are falsy.
Falsy(x) == x.ty = "None" \/ Len(x.v) = 0

(***************************************************************************)
(* os.urandom(8): one of NumSeeds byte strings (seed 0 is eight zero       *)
(* bytes, the salt of the spec's concrete scenario).                       *)
(***************************************************************************)
SaltBytes == 8

urandom(k) == [i \in 1..SaltBytes |-> (k * ((29 * i) + 7)) % 256]

Seeds == 0..(NumSeeds - 1)

(***************************************************************************)
(* base64.b64encode: bytes -> bytes (ASCII of the Base64 alphabet, '='     *)
(* padding).                                                               *)
(***************************************************************************)
B64Char(n) ==
    IF n < 26 THEN 65 + n
    ELSE IF n < 52 THEN 97 + (n - 26)
    ELSE IF n < 62 THEN 48 + (n - 52)
    ELSE IF n = 62 THEN 43 ELSE 47

\* The sextet a character stands for, 64 for a character outside the alphabet.
B64Index(c) ==
    IF c >= 65 /\ c <= 90 THEN c - 65
    ELSE IF c >= 97 /\ c <= 122 THEN (c - 97) + 26
    ELSE IF c >= 48 /\ c <= 57 THEN (c - 48) + 52
    ELSE IF c = 43 THEN 62
    ELSE IF c = 47 THEN 63 ELSE 64

B64Pad == 61

RECURSIVE B64EncodeFrom(_, _)
B64EncodeFrom(b, i) ==
    LET left == Len(b) - i + 1 IN
    IF left <= 0 THEN <<>>
    ELSE IF left = 1 THEN
        <<B64Char(b[i] \div 4), B64Char((b[i] % 4) * 16), B64Pad, B64Pad>>
    ELSE IF left = 2 THEN
        <<B64Char(b[i] \div 4),
          B64Char(((b[i] % 4) * 16) + (b[i + 1] \div 16)),
          B64Char((b[i + 1] % 16) * 4), B64Pad>>
    ELSE
        <<B64Char(b[i] \div 4),
          B64Char(((b[i] % 4) * 16) + (b[i + 1] \div 16)),
          B64Char(((b[i + 1] % 16) * 4) + (b[i + 2] \div 64)),
          B64Char(b[i + 2] % 64)>> \o B64EncodeFrom(b, i + 3)

b64encode(b) == PyBytes(B64EncodeFrom(b, 1))

(***************************************************************************)
(* base64.b64decode(s) with validate=False: characters outside the         *)
(* alphabet are skipped, a completed pad sequence ends the input, and      *)
(* left-over characters of an unfinished quad are an error                 *)
(* (binascii.Error).  st = [q: position in the quad, l: left-over bits,    *)
(* p: pads seen, out: bytes so far].                                       *)
(***************************************************************************)
RECURSIVE B64DecodeFrom(_, _, _)
B64DecodeFrom(s, i, st) ==
    IF i > Len(s) THEN (IF st.q # 0 THEN PyError ELSE PyBytes(st.out))
    ELSE IF s[i] = B64Pad THEN
        IF st.q >= 2 /\ st.q + st.p + 1 >= 4 THEN PyBytes(st.out)
        ELSE B64DecodeFrom(s, i + 1,
                 [st EXCEPT !.p = IF st.q >= 2 THEN st.p + 1 ELSE st.p])
    ELSE IF B64Index(s[i]) = 64 THEN B64DecodeFrom(s, i + 1, st)
    ELSE LET c == B64Index(s[i]) IN
        B64DecodeFrom(s, i + 1,
            CASE st.q = 0 -> [q |-> 1, l |-> c, p |-> 0, out |-> st.out]
              [] st.q = 1 -> [q |-> 2, l |-> c % 16, p |-> 0,
                              out |-> Append(st.out, (st.l * 4) + (c \div 16))]
              [] st.q = 2 -> [q |-> 3, l |-> c % 4, p |-> 0,
                              out |-> Append(st.out, (st.l * 16) + (c \div 4))]
              [] OTHER    -> [q |-> 0, l |-> 0, p |-> 0,
                              out |-> Append(st.out, (st.l * 64) + c)])

b64decode(s) ==
    B64DecodeFrom(s.v, 1, [q |-> 0, l |-> 0, p |-> 0, out |-> <<>>])

(***************************************************************************)
(* str(x): a str is itself, None is "None", and bytes give their repr      *)
(* b'...' (every byte of a Base64 text is printable and is neither a       *)
(* quote nor a backslash, so the repr holds the bytes as they are).        *)
(***************************************************************************)
str(x) ==
    CASE x.ty = "None"  -> PyStr(<<78, 111, 110, 101>>)
      [] x.ty = "bytes" -> PyStr(<<98, 39>> \o x.v \o <<39>>)
      [] OTHER          -> x

(***************************************************************************)
(* str.encode("UTF-8"), for code points below 2048.                        *)
(***************************************************************************)
RECURSIVE Utf8From(_, _)
Utf8From(s, i) ==
    IF i > Len(s) THEN <<>>
    ELSE (IF s[i] < 128 THEN <<s[i]>>
          ELSE <<192 + (s[i] \div 64), 128 + (s[i] % 64)>>) \o Utf8From(s, i + 1)

encode_utf8(x) == PyBytes(Utf8From(x.v, 1))

(***************************************************************************)
(* sha256(m).hexdigest(), taken as collision-free: the digest of a message *)
(* is the message itself under a "digest" tag.                             *)
(***************************************************************************)
sha256_hexdigest(m) == [ty |-> "digest", v |-> m]

\* User.__encrypt_password, with the loss of the password a bug might cause.
encrypt_password_no_password(password, salt) ==
    sha256_hexdigest(salt.v)

\* User.__encrypt_password(password, salt)
encrypt_password(password, salt) ==
    LET password_bytes == IF password.ty = "str" THEN encode_utf8(password)
                          ELSE password
    IN  sha256_hexdigest(password_bytes.v \o salt.v)

(***************************************************************************)
(* User.salt (lines 94-105), as a function of the fields it reads and of   *)
(* what os.urandom returns (seed k): the value it leaves in _salt and the  *)
(* value it returns.  uid = 0 is "no id".                                  *)
(***************************************************************************)
PyBool(b) == [ty |-> "bool", v |-> <<b>>]

\* The accessor without its "and not self._salt": a salt on every read of an
\* unsaved user.
salt_get_regenerating(uid, s, k) ==
    LET s1 == IF uid = 0 THEN b64encode(urandom(k)) ELSE s
        s2 == IF s1.ty = "str" THEN encode_utf8(s1) ELSE s1
    IN  [stored |-> s2, ret |-> s2]

salt_get(uid, s, k) ==
    LET s1 == IF uid = 0 /\ Falsy(s) THEN b64encode(urandom(k)) ELSE s
        s2 == IF s1.ty = "str" THEN encode_utf8(s1) ELSE s1
    IN  [stored |-> s2, ret |-> s2]

\* b64decode(str(self.salt)) of lines 148 and 158
salt_arg(saltret) == b64decode(str(saltret))

(***************************************************************************)
(* Clear-text passwords: the strings over PwAlphabet ('x' and U+00E9) of   *)
(* at most MaxPwLen characters, so that p and p + "x" both occur.          *)
(***************************************************************************)
PwAlphabet == {120, 233}

RECURSIVE StringsUpTo(_)
StringsUpTo(n) ==
    IF n = 0 THEN {<<>>}
    ELSE LET shorter == StringsUpTo(n - 1)
         IN  shorter \cup {Append(s, c) : s \in shorter, c \in PwAlphabet}

Passwords == {PyStr(s) : s \in StringsUpTo(MaxPwLen)}

\* The salt as bytes whatever type the field holds (history only).
AsBytes(s) == IF s.ty = "str" THEN encode_utf8(s) ELSE s

NoteSalt(stored) ==
    salt0' = IF salt0 = PyNone /\ stored # PyNone THEN AsBytes(stored) ELSE salt0

(***************************************************************************)
(* The operations on one User object, one call after the other.            *)
(***************************************************************************)
\* x = user.salt
SaltRead ==
    \E k \in Seeds :
        LET r == salt_get(id, _salt, k) IN
        /\ _salt' = r.stored
        /\ NoteSalt(r.stored)
        /\ last' = [op |-> "salt", arg |-> PyNone, ret |-> r.ret]
        /\ UNCHANGED <<id, _password, clear>>

\* user.password = p  (lines 145-148)
SetPassword(p) ==
    \E k \in Seeds :
        LET r == salt_get(id, _salt, k)
            d == salt_arg(r.ret)
        IN
        /\ _salt' = r.stored
        /\ NoteSalt(r.stored)
        /\ IF d = PyError
           THEN /\ last' = [op |-> "set", arg |-> p, ret |-> PyError]
                /\ UNCHANGED <<_password, clear>>
           ELSE /\ _password' = encrypt_password(p, d)
                /\ clear' = p
                /\ last' = [op |-> "set", arg |-> p, ret |-> PyNone]
        /\ UNCHANGED id

\* A validate_password that keeps the digest it computed.
validate_password_storing(q) ==
    \E k \in Seeds :
        LET r == salt_get(id, _salt, k)
            d == salt_arg(r.ret)
        IN
        /\ _salt' = r.stored
        /\ NoteSalt(r.stored)
        /\ d # PyError
        /\ _password' = encrypt_password(q, d)
        /\ last' = [op |-> "validate", arg |-> q,
                    ret |-> PyBool(_password = encrypt_password(q, d))]
        /\ UNCHANGED <<id, clear>>

\* user.validate_password(q)  (lines 150-158): self.password is read first,
\* then self.salt, then the two digests are compared.
validate_password(q) ==
    \E k \in Seeds :
        LET stored == _password
            r == salt_get(id, _salt, k)
            d == salt_arg(r.ret)
        IN
        /\ _salt' = r.stored
        /\ NoteSalt(r.stored)
        /\ last' = [op |-> "validate", arg |-> q,
                    ret |-> IF d = PyError THEN PyError
                            ELSE PyBool(stored = encrypt_password(q, d))]
        /\ UNCHANGED <<id, _password, clear>>

\* The row is flushed: the autoincrement primary key is assigned.
Persist ==
    /\ id = 0
    /\ id' = 1
    /\ last' = [op |-> "persist", arg |-> PyNone, ret |-> PyNone]
    /\ UNCHANGED <<_salt, _password, clear, salt0>>

\* The persisted row is read back: the String(12) column gives a str.
Reload ==
    /\ id # 0
    /\ _salt.ty = "bytes"
    /\ _salt' = PyStr(_salt.v)
    /\ last' = [op |-> "reload", arg |-> PyNone, ret |-> PyNone]
    /\ UNCHANGED <<id, _password, clear, salt0>>

(***************************************************************************)
(* The values json.dumps takes and json.loads gives.  Every value is a     *)
(* record [t, n, s, c]: t the type, n the number (of an int, or 1/0 of a   *)
(* bool), s the characters of a str, c the items of a list or the members  *)
(* [k, v] of a dict in insertion order.  None is JNull.                    *)
(***************************************************************************)
JNull      == [t |-> "null", n |-> 0, s |-> <<>>, c |-> <<>>]
JBool(b)   == [t |-> "bool", n |-> IF b THEN 1 ELSE 0, s |-> <<>>, c |-> <<>>]
JInt(i)    == [t |-> "int",  n |-> i, s |-> <<>>, c |-> <<>>]
JStr(x)    == [t |-> "str",  n |-> 0, s |-> x, c |-> <<>>]
JList(xs)  == [t |-> "list", n |-> 0, s |-> <<>>, c |-> xs]
JDict(ms)  == [t |-> "dict", n |-> 0, s |-> <<>>, c |-> ms]
\* json.loads raised (ValueError)
JError     == [t |-> "error", n |-> 0, s |-> <<>>, c |-> <<>>]

(***************************************************************************)
(* json.dumps(value) with its defaults: ensure_ascii, ", " and ": ".       *)
(***************************************************************************)
RECURSIVE Digits(_)
Digits(n) == IF n < 10 THEN <<48 + n>> ELSE Digits(n \div 10) \o <<48 + (n % 10)>>

HexDigit(d) == IF d < 10 THEN 48 + d ELSE 97 + (d - 10)

\* One character of a str inside the quotes (characters from U+0020 on).
EscapeChar(ch) ==
    IF ch = 34 THEN <<92, 34>>
    ELSE IF ch = 92 THEN <<92, 92>>
    ELSE IF ch > 126 THEN
        <<92, 117, HexDigit(ch \div 4096), HexDigit((ch \div 256) % 16),
          HexDigit((ch \div 16) % 16), HexDigit(ch % 16)>>
    ELSE <<ch>>

\* The encoder with a quote left as it is inside a str.
DumpsStr_unescaped(x) ==
    <<34>> \o x \o <<34>>

RECURSIVE EscapeFrom(_, _)
EscapeFrom(x, i) ==
    IF i > Len(x) THEN <<>> ELSE EscapeChar(x[i]) \o EscapeFrom(x, i + 1)

DumpsStr(x) == <<34>> \o EscapeFrom(x, 1) \o <<34>>

RECURSIVE Dumps(_), DumpsItems(_, _), DumpsMembers(_, _)
Dumps(val) ==
    CASE val.t = "null" -> <<110, 117, 108, 108>>
      [] val.t = "bool" -> IF val.n = 1 THEN <<116, 114, 117, 101>>
                           ELSE <<102, 97, 108, 115, 101>>
      [] val.t = "int"  -> IF val.n < 0 THEN <<45>> \o Digits(0 - val.n)
                           ELSE Digits(val.n)
      [] val.t = "str"  -> DumpsStr(val.s)
      [] val.t = "list" -> <<91>> \o DumpsItems(val.c, 1) \o <<93>>
      [] OTHER          -> <<123>> \o DumpsMembers(val.c, 1) \o <<125>>

DumpsItems(xs, i) ==
    IF i > Len(xs) THEN <<>>
    ELSE (IF i > 1 THEN <<44, 32>> ELSE <<>>)
             \o Dumps(xs[i]) \o DumpsItems(xs, i + 1)

DumpsMembers(ms, i) ==
    IF i > Len(ms) THEN <<>>
    ELSE (IF i > 1 THEN <<44, 32>> ELSE <<>>)
             \o DumpsStr(ms[i].k) \o <<58, 32>> \o Dumps(ms[i].v)
             \o DumpsMembers(ms, i + 1)

(***************************************************************************)
(* json.loads(text): a recursive-descent parser of the JSON grammar for    *)
(* null, true, false, integers, strings, arrays and objects.  Each parser  *)
(* returns [ok, val, pos]: pos is the index after what it read.            *)
(***************************************************************************)
Fail == [ok |-> FALSE, val |-> JError, pos |-> 0]

At(x, i) == IF i >= 1 /\ i <= Len(x) THEN x[i] ELSE 0

RECURSIVE SkipWs(_, _)
SkipWs(x, i) ==
    IF At(x, i) \in {32, 9, 10, 13} THEN SkipWs(x, i + 1) ELSE i

Literal(x, i, word) ==
    /\ i + Len(word) - 1 <= Len(x)
    /\ \A j \in 1..Len(word) : x[i + j - 1] = word[j]

IsDigit(ch) == ch >= 48 /\ ch <= 57

HexValue(ch) ==
    IF IsDigit(ch) THEN ch - 48
    ELSE IF ch >= 97 /\ ch <= 102 THEN (ch - 97) + 10
    ELSE IF ch >= 65 /\ ch <= 70 THEN (ch - 65) + 10
    ELSE 0 - 1

\* i is the index after the opening quote; acc the characters read so far.
RECURSIVE ParseString(_, _, _)
ParseString(x, i, acc) ==
    LET ch == At(x, i) IN
    IF i > Len(x) \/ ch < 32 THEN Fail
    ELSE IF ch = 34 THEN [ok |-> TRUE, val |-> acc, pos |-> i + 1]
    ELSE IF ch = 92 THEN
        LET e == At(x, i + 1) IN
        IF e \in {34, 92, 47} THEN ParseString(x, i + 2, Append(acc, e))
        ELSE IF e = 110 THEN ParseString(x, i + 2, Append(acc, 10))
        ELSE IF e = 116 THEN ParseString(x, i + 2, Append(acc, 9))
        ELSE IF e = 114 THEN ParseString(x, i + 2, Append(acc, 13))
        ELSE IF e = 98 THEN ParseString(x, i + 2, Append(acc, 8))
        ELSE IF e = 102 THEN ParseString(x, i + 2, Append(acc, 12))
        ELSE IF e = 117 THEN
            LET h == [j \in 1..4 |-> HexValue(At(x, i + 1 + j))] IN
            IF \E j \in 1..4 : h[j] < 0 THEN Fail
            ELSE ParseString(x, i + 6,
                     Append(acc, (h[1] * 4096) + (h[2] * 256) + (h[3] * 16) + h[4]))
        ELSE Fail
    ELSE ParseString(x, i + 1, Append(acc, ch))

\* The digits from i on, as [n, pos].
RECURSIVE ParseDigits(_, _, _)
ParseDigits(x, i, n) ==
    IF IsDigit(At(x, i)) THEN ParseDigits(x, i + 1, (n * 10) + (At(x, i) - 48))
    ELSE [n |-> n, pos |-> i]

\* An integer literal: -? (0 | [1-9][0-9]*), not followed by a fraction or
\* an exponent (those give a float, which is outside this model).
ParseInt(x, i) ==
    LET neg == At(x, i) = 45
        j == IF neg THEN i + 1 ELSE i
        d == ParseDigits(x, j, 0)
    IN  IF ~IsDigit(At(x, j)) THEN Fail
        ELSE IF At(x, j) = 48 /\ d.pos > j + 1 THEN Fail
        ELSE IF At(x, d.pos) \in {46, 101, 69} THEN Fail
        ELSE [ok |-> TRUE, val |-> JInt(IF neg THEN 0 - d.n ELSE d.n),
              pos |-> d.pos]

\* dict[k] = v: a key already present keeps its place and takes the value.
SetMember(ms, k, v) ==
    IF \E j \in 1..Len(ms) : ms[j].k = k
    THEN [j \in 1..Len(ms) |-> IF ms[j].k = k THEN [k |-> k, v |-> v] ELSE ms[j]]
    ELSE Append(ms, [k |-> k, v |-> v])

RECURSIVE ParseValue(_, _), ParseItems(_, _, _), ParseMembers(_, _, _)
ParseValue(x, i0) ==
    LET i == SkipWs(x, i0)
        ch == At(x, i)
    IN  IF ch = 110 /\ Literal(x, i, <<110, 117, 108, 108>>)
            THEN [ok |-> TRUE, val |-> JNull, pos |-> i + 4]
        ELSE IF ch = 116 /\ Literal(x, i, <<116, 114, 117, 101>>)
            THEN [ok |-> TRUE, val |-> JBool(TRUE), pos |-> i + 4]
        ELSE IF ch = 102 /\ Literal(x, i, <<102, 97, 108, 115, 101>>)
            THEN [ok |-> TRUE, val |-> JBool(FALSE), pos |-> i + 5]
        ELSE IF ch = 34 THEN
            LET r == ParseString(x, i + 1, <<>>) IN
            IF r.ok THEN [ok |-> TRUE, val |-> JStr(r.val), pos |-> r.pos]
            ELSE Fail
        ELSE IF ch = 45 \/ IsDigit(ch) THEN ParseInt(x, i)
        ELSE IF ch = 91 THEN
            LET j == SkipWs(x, i + 1) IN
            IF At(x, j) = 93
            THEN [ok |-> TRUE, val |-> JList(<<>>), pos |-> j + 1]
            ELSE ParseItems(x, j, <<>>)
        ELSE IF ch = 123 THEN
            LET j == SkipWs(x, i + 1) IN
            IF At(x, j) = 125
            THEN [ok |-> TRUE, val |-> JDict(<<>>), pos |-> j + 1]
            ELSE ParseMembers(x, j, <<>>)
        ELSE Fail

ParseItems(x, i, acc) ==
    LET r == ParseValue(x, i) IN
    IF ~r.ok THEN Fail
    ELSE LET j == SkipWs(x, r.pos) IN
         IF At(x, j) = 44 THEN ParseItems(x, j + 1, Append(acc, r.val))
         ELSE IF At(x, j) = 93
             THEN [ok |-> TRUE, val |-> JList(Append(acc, r.val)), pos |-> j + 1]
         ELSE Fail

ParseMembers(x, i0, acc) ==
    LET i == SkipWs(x, i0) IN
    IF At(x, i) # 34 THEN Fail
    ELSE LET key == ParseString(x, i + 1, <<>>) IN
         IF ~key.ok THEN Fail
         ELSE LET c == SkipWs(x, key.pos) IN
              IF At(x, c) # 58 THEN Fail
              ELSE LET r == ParseValue(x, c + 1) IN
                   IF ~r.ok THEN Fail
                   ELSE LET j == SkipWs(x, r.pos)
                            ms == SetMember(acc, key.val, r.val)
                        IN  IF At(x, j) = 44 THEN ParseMembers(x, j + 1, ms)
                            ELSE IF At(x, j) = 125
                                THEN [ok |-> TRUE, val |-> JDict(ms), pos |-> j + 1]
                            ELSE Fail

Loads(x) ==
    LET r == ParseValue(x, 1) IN
    IF r.ok /\ SkipWs(x, r.pos) = Len(x) + 1 THEN r.val ELSE JError

(***************************************************************************)
(* JSONEncodedDict and JSONEncodedList (lines 33-64).  empty_val is a      *)
(* class attribute: one dict object for JSONEncodedDict and one list       *)
(* object for JSONEncodedList, each shared by every column of that type.   *)
(***************************************************************************)
MaxItems == 2       \* longest list and largest dict bound or built

Codecs == {"dict", "list"}

ColNull == [null |-> TRUE, text |-> <<>>]

\* lines 45-50
process_bind_param(value) ==
    IF value # JNull THEN [null |-> FALSE, text |-> Dumps(value)] ELSE ColNull

\* line 53; c is the class of self
process_result_value(c, col) ==
    IF ~col.null THEN Loads(col.text) ELSE empty_val[c]

\* The values bound: atoms, and lists and dicts of at most MaxItems atoms or
\* inner containers.
Atoms ==
    {JNull, JBool(TRUE), JBool(FALSE), JInt(0 - 7), JInt(120),
     JStr(<<>>), JStr(<<97, 34, 92, 233>>)}

Inner ==
    {JList(<<>>),
     JList(<<JInt(0), JStr(<<34>>)>>),
     JDict(<<[k |-> <<92, 34>>, v |-> JList(<<JNull>>)]>>)}

Keys == {<<97>>, <<34, 233>>}

RECURSIVE ItemsUpTo(_)
ItemsUpTo(n) ==
    IF n = 0 THEN {<<>>}
    ELSE LET shorter == ItemsUpTo(n - 1)
         IN  shorter \cup {Append(xs, e) : xs \in shorter, e \in Atoms \cup Inner}

RECURSIVE MembersUpTo(_)
MembersUpTo(n) ==
    IF n = 0 THEN {<<>>}
    ELSE LET shorter == MembersUpTo(n - 1)
         IN  shorter \cup
             {Append(ms, [k |-> k, v |-> e]) :
                 ms \in shorter,
                 k \in Keys,
                 e \in Atoms \cup Inner} 

DistinctKeys(ms) ==
    \A i, j \in 1..Len(ms) : i # j => ms[i].k # ms[j].k

ListValues == {JList(xs) : xs \in ItemsUpTo(MaxItems)}

DictValues == {JDict(ms) : ms \in {m \in MembersUpTo(MaxItems) : DistinctKeys(m)}}

\* What a caller assigns to a column of type c: a value of its shape or None.
ShapeValues(c) == (IF c = "list" THEN ListValues ELSE DictValues) \cup {JNull}

\* A cell of a row that has not been flushed yet.
NewCell == [codec |-> "none", cell |-> ColNull]

NothingHeld ==
    [codec |-> "none", src |-> JNull, ret |-> JNull, val |-> JNull,
     shared |-> FALSE]

CodecInit ==
    /\ empty_val = [dict |-> JDict(<<>>), list |-> JList(<<>>)]
    /\ column = NewCell
    /\ bound_value = JNull
    /\ held = NothingHeld

\* A value is assigned to a column of type c of a new row and flushed.
Bind ==
    /\ held = NothingHeld
    /\ column = NewCell
    /\ \E c \in Codecs : \E v \in ShapeValues(c) :
        /\ column' = [codec |-> c, cell |-> process_bind_param(v)]
        /\ bound_value' = v
    /\ UNCHANGED <<empty_val, held>>

\* The row is loaded: the caller now holds what process_result_value
\* returned (the class's empty_val object itself when the cell is NULL).
Result ==
    /\ held = NothingHeld
    /\ column # NewCell
    /\ LET r == process_result_value(column.codec, column.cell) IN
       held' = [codec |-> column.codec, src |-> bound_value, ret |-> r,
                val |-> r, shared |-> column.cell.null]
    /\ UNCHANGED <<empty_val, column, bound_value>>

\* The caller changes the value it holds in place: list.append(120) or
\* dict[k] = 120.  A change to the shared object is a change to empty_val.
Modify ==
    /\ held.codec # "none"
    /\ held.val.t \in {"list", "dict"}
    /\ Len(held.val.c) < MaxItems
    /\ \E k \in Keys :
        LET new == IF held.val.t = "list"
                   THEN JList(Append(held.val.c, JInt(120)))
                   ELSE JDict(SetMember(held.val.c, k, JInt(120)))
        IN  /\ held' = [held EXCEPT !.val = new]
            /\ empty_val' = IF held.shared
                            THEN [empty_val EXCEPT ![held.codec] = new]
                            ELSE empty_val
    /\ UNCHANGED <<column, bound_value>>

\* The caller lets go of the value.
Discard ==
    /\ held.codec # "none"
    /\ held' = NothingHeld
    /\ UNCHANGED <<empty_val, column, bound_value>>

\* The caller turns to another row.
NewRow ==
    /\ held = NothingHeld
    /\ column # NewCell
    /\ column' = NewCell
    /\ bound_value' = JNull
    /\ UNCHANGED <<empty_val, held>>

NextCodec ==
    \/ Bind /\ UNCHANGED <<credVars, concVars, ageVars>>
    \/ Result /\ UNCHANGED <<credVars, concVars, ageVars>>
    \/ Modify /\ UNCHANGED <<credVars, concVars, ageVars>>
    \/ Discard /\ UNCHANGED <<credVars, concVars, ageVars>>
    \/ NewRow /\ UNCHANGED <<credVars, concVars, ageVars>>

(***************************************************************************)
(* Calendar arithmetic of datetime.date and calendar.leapdays.             *)
(***************************************************************************)
FirstYear == 2023   \* first year of the dates tried (2024 is a leap year)
NumYears  == 3      \* how many years of dates are tried

Date(y, m, d) == [year |-> y, month |-> m, day |-> d]
NoDate == Date(0, 0, 0)

IsLeap(y) == (y % 4 = 0 /\ y % 100 # 0) \/ y % 400 = 0

DaysInMonth(y, m) ==
    IF m = 2 THEN (IF IsLeap(y) THEN 29 ELSE 28)
    ELSE IF m \in {4, 6, 9, 11} THEN 30 ELSE 31

RECURSIVE DaysBeforeMonth(_, _)
DaysBeforeMonth(y, m) ==
    IF m = 1 THEN 0 ELSE DaysBeforeMonth(y, m - 1) + DaysInMonth(y, m - 1)

DaysBeforeYear(y) ==
    ((y - 1) * 365) + ((y - 1) \div 4) - ((y - 1) \div 100) + ((y - 1) \div 400)

\* date.toordinal()
Ordinal(d) == DaysBeforeYear(d.year) + DaysBeforeMonth(d.year, d.month) + d.day

RECURSIVE YearOfOrdinal(_, _)
YearOfOrdinal(n, y) ==
    IF n > DaysBeforeYear(y + 1) THEN YearOfOrdinal(n, y + 1)
    ELSE IF n <= DaysBeforeYear(y) THEN YearOfOrdinal(n, y - 1)
    ELSE y

RECURSIVE MonthOfOrdinal(_, _, _)
MonthOfOrdinal(rest, y, m) ==
    IF rest > DaysInMonth(y, m) THEN MonthOfOrdinal(rest - DaysInMonth(y, m), y, m + 1)
    ELSE Date(y, m, rest)

\* date.fromordinal(n)
FromOrdinal(n) ==
    LET y == YearOfOrdinal(n, FirstYear) IN
    MonthOfOrdinal(n - DaysBeforeYear(y), y, 1)

\* calendar.leapdays(y1, y2): the leap years in range(y1, y2)
leapdays(y1, y2) ==
    (((y2 - 1) \div 4) - ((y1 - 1) \div 4))
        - (((y2 - 1) \div 100) - ((y1 - 1) \div 100))
        + (((y2 - 1) \div 400) - ((y1 - 1) \div 400))

(***************************************************************************)
(* User.age, application side (lines 166-176).  In Python 3 the "/" of     *)
(* line 175 is true division: the result is the rational num/den, kept     *)
(* exact here.  timedelta(hours=None) raises TypeError.                    *)
(***************************************************************************)
\* User.timezone: None, or an offset in hours
TzNone == [set |-> FALSE, hours |-> 0]
Tz(z) == [set |-> TRUE, hours |-> z]

NoResult == [kind |-> "none", num |-> 0, den |-> 1, today |-> NoDate]

\* line 170: (datetime.utcnow() + timedelta(hours=self.timezone)).date()
TodayOf(now, tz) ==
    FromOrdinal(Ordinal(now.date) + ((now.hour + tz.hours) \div 24))

\* c = user.age, from the fields and the clock it reads
age(dob, tz, now) ==
    IF dob # NoDate
    THEN IF tz = TzNone
         THEN [kind |-> "TypeError", num |-> 0, den |-> 1, today |-> NoDate]
         ELSE LET today == TodayOf(now, tz)
                  birthday == dob
                  days == Ordinal(today) - Ordinal(birthday)
              IN  [kind |-> "number",
                   num |-> days - leapdays(birthday.year, today.year),
                   den |-> 365, today |-> today]
    ELSE [kind |-> "number", num |-> 0 - 1, den |-> 1, today |-> NoDate]

\* User.age as a query expression (lines 178-180):
\* date_part('year', age(date_of_birth)), the completed calendar years from
\* dob to today, for today on or after dob.
age_expression(dob, today) ==
    (today.year - dob.year)
        - (IF today.month < dob.month
              \/ (today.month = dob.month /\ today.day < dob.day)
           THEN 1 ELSE 0)

(***************************************************************************)
(* One user and a clock.  The dates tried are the first and the last days  *)
(* of every month of NumYears years from FirstYear on.                     *)
(***************************************************************************)
Years == FirstYear..(FirstYear + NumYears - 1)

DaysTried(y, m) == {1, 28, 29, 30, 31} \cap (1..DaysInMonth(y, m))

Dates == {Date(y, m, d) : y \in Years, m \in 1..12, d \in 1..31} \cap
         UNION {{Date(y, m, d) : d \in DaysTried(y, m)} : y \in Years, m \in 1..12}

Hours == {0, 23}

Timezones == {0 - 1, 1}

AgeInit ==
    /\ date_of_birth = NoDate
    /\ timezone = TzNone
    /\ utcnow \in {[date |-> d, hour |-> h] : d \in Dates, h \in Hours}
    /\ age_result = NoResult

\* user.date_of_birth = d
SetBirth ==
    /\ age_result = NoResult
    /\ date_of_birth = NoDate
    /\ \E d \in Dates : date_of_birth' = d
    /\ UNCHANGED <<timezone, utcnow, age_result>>

\* user.timezone = z
SetTimezone ==
    /\ age_result = NoResult
    /\ timezone = TzNone
    /\ \E z \in Timezones : timezone' = Tz(z)
    /\ UNCHANGED <<date_of_birth, utcnow, age_result>>

\* x = user.age
ReadAge ==
    /\ age_result = NoResult
    /\ age_result' = age(date_of_birth, timezone, utcnow)
    /\ UNCHANGED <<date_of_birth, timezone, utcnow>>

NextAge ==
    \/ SetBirth /\ UNCHANGED <<credVars, concVars, codecVars>>
    \/ SetTimezone /\ UNCHANGED <<credVars, concVars, codecVars>>
    \/ ReadAge /\ UNCHANGED <<credVars, concVars, codecVars>>

(***************************************************************************)
(* Initial values of each part of the state.                               *)
(***************************************************************************)
Threads == {1, 2}

CredInit ==
    /\ id = 0
    /\ _salt = PyNone
    /\ _password = PyNone
    /\ clear = PyNone
    /\ salt0 = PyNone
    /\ last = [op |-> "new", arg |-> PyNone, ret |-> PyNone]

ConcIdle ==
    /\ pc = [t \in Threads |-> "idle"]
    /\ req = [t \in Threads |-> [op |-> "none", arg |-> PyNone]]
    /\ loc = [t \in Threads |-> [salt |-> PyNone, pw |-> PyNone, ret |-> PyNone]]
    /\ assigned = {}

AgeIdle ==
    /\ date_of_birth = NoDate
    /\ timezone = TzNone
    /\ utcnow = [date |-> Date(FirstYear, 1, 1), hour |-> 0]
    /\ age_result = NoResult

Init == CredInit /\ ConcIdle /\ CodecInit /\ AgeIdle

Next ==
    \/ SaltRead /\ UNCHANGED <<concVars, codecVars, ageVars>>
    \/ (\E p \in Passwords : SetPassword(p))
           /\ UNCHANGED <<concVars, codecVars, ageVars>>
    \/ (\E q \in Passwords : validate_password(q))
           /\ UNCHANGED <<concVars, codecVars, ageVars>>
    \/ Persist /\ UNCHANGED <<concVars, codecVars, ageVars>>
    \/ Reload /\ UNCHANGED <<concVars, codecVars, ageVars>>

Spec == Init /\ [][Next]_vars

SpecCodec == Init /\ [][NextCodec]_vars

InitAge == CredInit /\ ConcIdle /\ CodecInit /\ AgeInit

SpecAge == InitAge /\ [][NextAge]_vars

(***************************************************************************)
(* Two threads, each running one operation on the same fresh User object,  *)
(* interleaved statement by statement.  Nothing in lines 94-105 or 145-158 *)
(* holds a lock, so every interleaving of the steps below can happen.      *)
(*   validate:  readpw -> check -> [assign] -> norm -> ret -> compare      *)
(*   set:                 check -> [assign] -> norm -> ret -> store        *)
(*   salt:                check -> [assign] -> norm -> ret                 *)
(***************************************************************************)
Requests ==
    {[op |-> "salt", arg |-> PyNone]}
        \cup {[op |-> o, arg |-> p] : o \in {"set", "validate"}, p \in Passwords}

\* The call begins.
Start(t) ==
    /\ pc[t] = "idle"
    /\ \E r \in Requests :
        /\ req' = [req EXCEPT ![t] = r]
        /\ pc' = [pc EXCEPT ![t] = IF r.op = "validate" THEN "readpw" ELSE "check"]
    /\ UNCHANGED <<credVars, loc, assigned>>

\* line 157, left operand: self.password
ReadStoredPassword(t) ==
    /\ pc[t] = "readpw"
    /\ loc' = [loc EXCEPT ![t].pw = _password]
    /\ pc' = [pc EXCEPT ![t] = "check"]
    /\ UNCHANGED <<credVars, req, assigned>>

\* line 99: if not self.id and not self._salt
CheckAbsent(t) ==
    /\ pc[t] = "check"
    /\ pc' = [pc EXCEPT ![t] = IF id = 0 /\ Falsy(_salt) THEN "assign" ELSE "norm"]
    /\ UNCHANGED <<credVars, req, loc, assigned>>

\* line 100: self._salt = b64encode(os.urandom(8))
AssignSalt(t) ==
    /\ pc[t] = "assign"
    /\ \E k \in Seeds :
        /\ _salt' = b64encode(urandom(k))
        /\ assigned' = assigned \cup {b64encode(urandom(k))}
    /\ pc' = [pc EXCEPT ![t] = "norm"]
    /\ UNCHANGED <<id, _password, clear, salt0, last, req, loc>>

\* lines 102-103: a str salt is replaced by its bytes
NormaliseSalt(t) ==
    /\ pc[t] = "norm"
    /\ _salt' = IF _salt.ty = "str" THEN encode_utf8(_salt) ELSE _salt
    /\ pc' = [pc EXCEPT ![t] = "ret"]
    /\ UNCHANGED <<id, _password, clear, salt0, last, req, loc, assigned>>

\* line 105: return self._salt
ReturnSalt(t) ==
    /\ pc[t] = "ret"
    /\ loc' = [loc EXCEPT ![t].salt = _salt,
                          ![t].ret = IF req[t].op = "salt" THEN _salt ELSE @]
    /\ pc' = [pc EXCEPT ![t] = CASE req[t].op = "salt" -> "done"
                                 [] req[t].op = "set" -> "store"
                                 [] OTHER -> "compare"]
    /\ UNCHANGED <<credVars, req, assigned>>

\* line 147: self._password = self.__encrypt_password(password, ...)
StorePassword(t) ==
    /\ pc[t] = "store"
    /\ _password' = encrypt_password(req[t].arg, salt_arg(loc[t].salt))
    /\ pc' = [pc EXCEPT ![t] = "done"]
    /\ UNCHANGED <<id, _salt, clear, salt0, last, req, loc, assigned>>

\* line 157: the comparison and the return
Compare(t) ==
    /\ pc[t] = "compare"
    /\ loc' = [loc EXCEPT ![t].ret =
                  PyBool(loc[t].pw = encrypt_password(req[t].arg,
                                                      salt_arg(loc[t].salt)))]
    /\ pc' = [pc EXCEPT ![t] = "done"]
    /\ UNCHANGED <<credVars, req, assigned>>

NextConc ==
    \E t \in Threads :
        \/ Start(t) /\ UNCHANGED <<codecVars, ageVars>>
        \/ ReadStoredPassword(t) /\ UNCHANGED <<codecVars, ageVars>>
        \/ CheckAbsent(t) /\ UNCHANGED <<codecVars, ageVars>>
        \/ AssignSalt(t) /\ UNCHANGED <<codecVars, ageVars>>
        \/ NormaliseSalt(t) /\ UNCHANGED <<codecVars, ageVars>>
        \/ ReturnSalt(t) /\ UNCHANGED <<codecVars, ageVars>>
        \/ StorePassword(t) /\ UNCHANGED <<codecVars, ageVars>>
        \/ Compare(t) /\ UNCHANGED <<codecVars, ageVars>>

SpecConc == Init /\ [][NextConc]_vars

\* C4 (as claimed): in every interleaving of two operations on a user that
\* starts with no salt, line 100 stores at most one salt value, every
\* finished operation saw the salt the user has, and once both are finished
\* the stored password hash is the hash of an assigned password with the
\* salt the user ends up with.
C4_OneSaltPerUser ==
    /\ Cardinality(assigned) <= 1
    /\ \A t \in Threads : pc[t] = "done" => loc[t].salt = _salt
    /\ ((\A t \in Threads : pc[t] = "done") /\ _password # PyNone)
         => \E t \in Threads :
               /\ req[t].op = "set"
               /\ _password = encrypt_password(req[t].arg, salt_arg(_salt))

(***************************************************************************)
(* Claims about the credential operations (checked under Spec).            *)
(***************************************************************************)

\* C1: validate_password(q) returns true when q is the clear-text password
\* most recently assigned to the user and false when q is another password,
\* whatever the user's id and salt were when the password was assigned.
C1_ValidateAgreesWithLastPassword ==
    (last.op = "validate" /\ clear # PyNone)
        => last.ret = PyBool(last.arg = clear)

\* C1 witness: a user with an id and no salt was given a password, and a
\* later validate_password of that password returned true.
C1_Witness ==
    /\ last.op = "validate"
    /\ clear # PyNone
    /\ last.arg = clear
    /\ last.ret = PyBool(TRUE)
    /\ id # 0
    /\ _salt = PyNone

\* C2: once a salt is stored on the user it never changes: the field keeps
\* holding the first salt, and every read of salt that returns one returns it.
C2_SaltStable ==
    salt0 # PyNone =>
        /\ _salt # PyNone
        /\ AsBytes(_salt) = salt0
        /\ (last.op = "salt" => last.ret = salt0)

\* C2 witness: the salt of a persisted user that has a password was read
\* and the read returned the first salt stored on the user.
C2_Witness ==
    /\ last.op = "salt"
    /\ last.ret # PyNone
    /\ last.ret = salt0
    /\ id # 0
    /\ _password # PyNone

\* C3 (as claimed): every read of salt leaves the user with a salt and
\* returns it, with or without an id; and a user with a password hash has a
\* salt.
C3_ReadAssignsSalt ==
    /\ last.op = "salt" => (last.ret # PyNone /\ _salt # PyNone)
    /\ _password # PyNone => _salt # PyNone

\* C10: a call of validate_password (the only step that leaves "validate"
\* in last.op) leaves the stored password hash as it was and returns a
\* boolean, for a matching and for a non-matching candidate.
C10_ValidateIsReadOnly ==
    [][last'.op = "validate"
          => (_password' = _password /\ last'.ret.ty = "bool")]_vars

\* C10 witness: validate_password returned false for a candidate that is not
\* the assigned password, and the stored hash is still that of the password.
C10_Witness ==
    /\ last.op = "validate"
    /\ clear # PyNone
    /\ last.arg # clear
    /\ last.ret = PyBool(FALSE)
    /\ _salt # PyNone
    /\ _password = encrypt_password(clear, salt_arg(AsBytes(_salt)))

(***************************************************************************)
(* Claims about the column codec (checked under SpecCodec).                *)
(***************************************************************************)

\* C5: a mapping bound through JSONEncodedDict, or a sequence bound through
\* JSONEncodedList, comes back from process_result_value structurally equal
\* to the value that was bound.
C5_RoundTrip ==
    (held.codec # "none" /\ held.src # JNull) => held.ret = held.src

\* C5 witness: a dict with a nested list and a key holding an escaped
\* character came back equal.
C5_Witness ==
    /\ held.codec = "dict"
    /\ held.ret = held.src
    /\ Len(held.src.c) = 2
    /\ held.src.c[1].k = <<34, 233>>
    /\ held.src.c[2].v.t = "list"
    /\ Len(held.src.c[2].v.c) = 2

\* C6 (as claimed): every decode of a stored NULL returns the empty default
\* of the codec's shape, {} or [], whatever was encoded, decoded or changed
\* by callers before.
C6_NullDecodesToEmpty ==
    (held.codec # "none" /\ held.src = JNull)
        => held.ret = (IF held.codec = "dict" THEN JDict(<<>>) ELSE JList(<<>>))

(***************************************************************************)
(* Claims about User.age (checked under SpecAge).                          *)
(***************************************************************************)
AgeIs(r, n) == r.kind = "number" /\ r.num = n * r.den

\* No 29 February on a day d with b <= d <= t.
NoLeapDayBetween(b, t) ==
    \A y \in (b.year)..(t.year) :
        IsLeap(y) =>
            ~(Ordinal(b) <= Ordinal(Date(y, 2, 29))
                 /\ Ordinal(Date(y, 2, 29)) <= Ordinal(t))

\* C7 (as claimed): the age of a user born today is 0, and the age of a user
\* born exactly 365 days before today is 1 when no 29 February lies between
\* the birth date and today.
C7_AgeOfBirthdays ==
    age_result.kind = "number" /\ date_of_birth # NoDate =>
        LET days == Ordinal(age_result.today) - Ordinal(date_of_birth) IN
        /\ days = 0 => AgeIs(age_result, 0)
        /\ (days = 365 /\ NoLeapDayBetween(date_of_birth, age_result.today))
               => AgeIs(age_result, 1)

\* C8 (as claimed): reading age never raises, with or without a birth date
\* and with or without a timezone offset; without a birth date it is -1.
C8_AgeNeverErrors ==
    age_result.kind # "none" =>
        /\ age_result.kind = "number"
        /\ date_of_birth = NoDate => AgeIs(age_result, 0 - 1)

\* C9 (as claimed): for a birth date other than 29 February and a today on
\* or after it, the whole years of the application-side age equal the
\* completed calendar years the query expression gives.
C9_AgeAgreesWithExpression ==
    (/\ age_result.kind = "number"
     /\ date_of_birth # NoDate
     /\ ~(date_of_birth.month = 2 /\ date_of_birth.day = 29)
     /\ Ordinal(date_of_birth) <= Ordinal(age_result.today))
        => age_result.num \div age_result.den
               = age_expression(date_of_birth, age_result.today)

====
